---- MODULE Spec2Model ----
(***************************************************************************)
(* The RYGlfg server (src/ryglfg/__main__.py): the route handlers over the *)
(* record store, the per-request database session, and the webhook         *)
(* fan-out.                                                                *)
(*                                                                         *)
(* The record store is the committed content of the database.  A handler   *)
(* works on a session: what it assigns to a loaded object stays in the     *)
(* session until session.commit() writes it to the store, and is dropped   *)
(* when the request ends without a commit.  A SELECT reads the committed   *)
(* store at the moment it is issued.  Statements of different requests     *)
(* interleave; the code between two statements of one request is local.    *)
(* Timestamps and webhook urls are left out: no handler branches on them.  *)
(***************************************************************************)
EXTENDS Integers, Sequences, FiniteSets, TLC

VARIABLES
    announcement,   \* the committed Announcement rows, by aid
    next_aid,       \* the aid the store gives to the next Announcement
    response,       \* the committed Response rows
    webhook,        \* the wids of the committed Webhook rows
    next_wid,       \* the wid the store gives to the next Webhook
    req,            \* the requests being handled: handler, position, session, response
    call            \* the token and parameters of the request received last, where kept

vars == <<announcement, next_aid, response, webhook, next_wid, req, call>>

store == <<announcement, next_aid, response, webhook, next_wid>>

(* ------------------------------ bounds -------------------------------- *)

\* Announcement ids the store hands out are 1..MaxAid.
MaxAid == 2
\* Webhook ids the store hands out are 1..MaxWid.
MaxWid == 2
\* The limit and offset parameters of a list request are 0..MaxPage.
MaxPage == 2
\* The list operation is checked over stores of up to MaxListed Announcements.
MaxListed == 3

\* Subjects known to the claims provider.
Users == {"A", "B"}
\* Requests the server handles at the same time.
Req == {"r1", "r2"}
\* Request bodies (title, description, opening_time, autostart_time as one value).
Data == {"d1", "d2"}

None == "None"
\* The limit of a list request that gives none.
DefaultLimit == 50
\* The aid of an object that was given none.
NoAid == 0

(* ------------------------------ types --------------------------------- *)

LOOKING_FOR_GROUP == "LOOKING_FOR_GROUP"
EVENT_STARTED == "EVENT_STARTED"
EVENT_CANCELLED == "EVENT_CANCELLED"

AnnouncementState == {LOOKING_FOR_GROUP, EVENT_STARTED, EVENT_CANCELLED}

\* The order of the states: both closed states are above LOOKING_FOR_GROUP.
StateRank(s) ==
    CASE s = LOOKING_FOR_GROUP -> 0
      [] s = EVENT_STARTED -> 1
      [] s = EVENT_CANCELLED -> 2

\* The scopes the handlers test for.
BaseScopes ==
    {"read:lfg", "create:lfg", "edit:lfg", "start:lfg", "cancel:lfg", "answer:lfg",
     "read:webhooks", "create:webhooks", "delete:webhooks", "test:webhooks"}

SudoScopes ==
    {"create:lfg_sudo", "edit:lfg_sudo", "start:lfg_sudo", "cancel:lfg_sudo",
     "answer:lfg_sudo"}

AdminScopes ==
    {"edit:lfg_admin", "delete:lfg_admin", "start:lfg_admin", "cancel:lfg_admin"}

AllScopes == BaseScopes \cup SudoScopes \cup AdminScopes

\* The permission sets of the tokens: every combination of the three tiers.
PermissionSets ==
    {{x \in AllScopes : \/ (b /\ x \in BaseScopes)
                         \/ (s /\ x \in SudoScopes)
                         \/ (a /\ x \in AdminScopes)} :
        b \in BOOLEAN, s \in BOOLEAN, a \in BOOLEAN}

\* cu: the decoded claims of the bearer token (CurrentUser).
AllTokens == [sub : Users, permissions : PermissionSets]

\* The tokens of the actors holding every scope, and of those holding the base
\* scopes alone.
Tokens ==
    [sub : Users, permissions : {P \in PermissionSets : P = BaseScopes \/ P = AllScopes}]

\* The tokens of the actors by the tier they reach: no scope, the base scopes,
\* the base and sudo scopes, every scope.
TierTokens ==
    [sub : Users,
     permissions : {{}, BaseScopes, BaseScopes \cup SudoScopes, AllScopes}]

\* The tokens of the actor A with and without the base scopes.
ListTokens == [sub : {"A"}, permissions : {{}, BaseScopes}]

NoToken == [sub |-> None, permissions |-> {}]

\* A request that is not being handled.
IdleReq ==
    [op |-> "idle", pc |-> "idle", aid |-> NoAid, lfg_state |-> None, code |-> 0,
     at_commit |-> {}, read |-> {}, to_post |-> {}, status |-> 0, detail |-> "",
     body |-> <<>>, concurrent |-> {}]

NoCall == [op |-> "idle", cu |-> NoToken, user |-> None, aid |-> NoAid, data |-> None]

InFlight(q) == req[q].pc \notin {"idle", "done"}

(* --------------------------- request plumbing ------------------------- *)

\* The request of handler op on aid, before the handler body runs.
Call(op, aid) == [IdleReq EXCEPT !.op = op, !.aid = aid]

\* raise f.HTTPException(status, detail), or a return with that status: the
\* response goes out and the session is closed.
Respond(rec, status, detail) ==
    [rec EXCEPT !.pc = "done", !.status = status, !.detail = detail]

\* The request r is answered within the step that received it.
Answered(r, rec) == req' = [req EXCEPT ![r] = rec]

\* The request r stays in flight after the step that received it; each request
\* records the requests that were in flight together with it.
Enter(r, rec) ==
    req' = [q \in Req |->
              IF q = r THEN [rec EXCEPT !.concurrent = {p \in Req \ {r} : InFlight(p)}]
              ELSE IF InFlight(q) THEN [req[q] EXCEPT !.concurrent = @ \cup {r}]
              ELSE req[q]]

\* The acting-as user taken to be the actor, whatever user is given.
ActingAsActor(cu, user) == cu.sub

\* if user is None: user = cu.sub
ActingAs(cu, user) == IF user = None THEN cu.sub ELSE user

\* The webhooks a request has called requests.post for.
Tried(rec) == rec.read \ rec.to_post

(* ------------------------------ the store ----------------------------- *)

Exists(aid) == aid \in DOMAIN announcement

\* session.add(lfg); session.commit(): the store assigns the aid.
InsertAnnouncement(row) ==
    [a \in DOMAIN announcement \cup {next_aid} |->
        IF a = next_aid THEN row ELSE announcement[a]]

\* session.delete(lfg) with the commit left out: the row stays in the store.
DeleteUncommitted(aid) == announcement

\* session.delete(lfg); session.commit()
DeleteAnnouncement(aid) ==
    [a \in DOMAIN announcement \ {aid} |-> announcement[a]]

\* The Responses an Announcement owns go with it.
DeleteResponsesOf(aid) == {x \in response : x.aid # aid}

(* ------------------------------ handlers ------------------------------ *)
(* Each handler is one step up to its first statement that another request *)
(* can observe or precede: the checks on the token and the SELECT of the   *)
(* addressed row, what the handler does to the loaded object, and the      *)
(* commit where it has one.  The fan-out to the webhooks follows in steps  *)
(* of its own.                                                             *)

\* The sudo check with its comparison of the subjects the other way round.
MissingSudoOnSelf(scope, cu, u) == (scope \o "_sudo") \notin cu.permissions /\ u = cu.sub

\* "<scope>_sudo" not in cu.permissions and user != cu.sub
MissingSudo(scope, cu, u) == (scope \o "_sudo") \notin cu.permissions /\ u # cu.sub

\* The admin check with the test of the permissions the other way round.
MissingAdminHeld(scope, cu, u, lfg) ==
    (scope \o "_admin") \in cu.permissions /\ u # lfg.creator_id

\* "<scope>_admin" not in cu.permissions and user != lfg.creator_id
MissingAdmin(scope, cu, u, lfg) ==
    (scope \o "_admin") \notin cu.permissions /\ u # lfg.creator_id

\* The state check taking a cancelled announcement for an open one.
StateConflictStartedOnly(lfg) == lfg.state = EVENT_STARTED

\* lfg.state != database.AnnouncementState.LOOKING_FOR_GROUP
StateConflict(lfg) == lfg.state # LOOKING_FOR_GROUP

\* The sudo check of the edit testing for the base scope instead.
EditMissingSudoWrongScope(cu, lfg) ==
    lfg.creator_id # cu.sub /\ "edit:lfg" \notin cu.permissions

\* lfg.creator_id != cu.sub and "edit:lfg_sudo" not in cu.permissions
EditMissingSudo(cu, lfg) ==
    lfg.creator_id # cu.sub /\ "edit:lfg_sudo" \notin cu.permissions

\* The admin check of the edit comparing for equality with EVENT_STARTED.
EditMissingAdminStartedOnly(cu, lfg) ==
    lfg.state = EVENT_STARTED /\ "edit:lfg_admin" \notin cu.permissions

\* lfg.state > database.AnnouncementState.LOOKING_FOR_GROUP
\*     and "edit:lfg_admin" not in cu.permissions
EditMissingAdmin(cu, lfg) ==
    /\ StateRank(lfg.state) > StateRank(LOOKING_FOR_GROUP)
    /\ "edit:lfg_admin" \notin cu.permissions

\* The truth value of filter_state in "... if filter_state else query": that of
\* a state given as parameter, against that of None.
Truthy(filter_state) == filter_state # None

\* .where(database.Announcement.state == filter_state) if filter_state
Matching(filter_state) ==
    {a \in DOMAIN announcement :
        Truthy(filter_state) => announcement[a].state = filter_state}

\* The autostart_time carried by a request body.
autostart_time(data) == IF data = "d1" THEN 1 ELSE 2

\* .order_by(database.Announcement.autostart_time): the rows of S in an
\* ascending order of autostart_time, rows of equal time in any order.
Ordered(S) ==
    {rows \in [1 .. Cardinality(S) -> S] :
        /\ \A i, j \in 1 .. Cardinality(S) : i # j => rows[i] # rows[j]
        /\ \A i, j \in 1 .. Cardinality(S) :
              i < j => autostart_time(announcement[rows[i]].data)
                          <= autostart_time(announcement[rows[j]].data)}

\* The page cut the way the query is written: the first limit rows, and of
\* those the ones after the first offset.
PageLimitFirst(rows, offset, limit) ==
    LET cut == IF Len(rows) > limit THEN limit ELSE Len(rows)
        n == IF cut > offset THEN cut - offset ELSE 0
    IN  [i \in 1 .. n |-> rows[offset + i]]

\* .offset(offset).limit(limit) of the ordered rows: OFFSET skips, then LIMIT
\* cuts, whatever the order in which the query was built.
Page(rows, offset, limit) ==
    LET rest == IF Len(rows) > offset THEN Len(rows) - offset ELSE 0
        n == IF rest > limit THEN limit ELSE rest
    IN  [i \in 1 .. n |-> rows[offset + i]]

\* GET /lfg: the body is the aids of the rows returned.
lfg_get(r, cu, limit, offset, filter_state) ==
    /\ req[r].pc = "idle"
    /\ LET rec == Call("lfg_get", NoAid)
       IN  IF "read:lfg" \notin cu.permissions
           THEN Answered(r, Respond(rec, 403, "read:lfg"))
           ELSE \E rows \in Ordered(Matching(filter_state)) :
                   Answered(r, [Respond(rec, 200, "") EXCEPT
                                   !.body = Page(rows, offset, limit)])
    /\ UNCHANGED store

\* GET /lfg/{aid}
lfg_get_single(r, cu, aid) ==
    /\ req[r].pc = "idle"
    /\ LET rec == Call("lfg_get_single", aid)
       IN  IF "read:lfg" \notin cu.permissions
           THEN Answered(r, Respond(rec, 403, "read:lfg"))
           ELSE IF ~Exists(aid)
           THEN Answered(r, Respond(rec, 404, "No such LFG."))
           ELSE Answered(r, [Respond(rec, 200, "") EXCEPT
                                !.lfg_state = announcement[aid].state, !.body = <<aid>>])
    /\ UNCHANGED store

\* POST /lfg
lfg_post(r, cu, user, data) ==
    /\ req[r].pc = "idle"
    /\ next_aid <= MaxAid
    /\ LET u == ActingAs(cu, user)
           rec == Call("lfg_post", next_aid)
           lfg == [creator_id |-> u, state |-> LOOKING_FOR_GROUP, data |-> data]
       IN  IF "create:lfg" \notin cu.permissions
           THEN /\ Answered(r, Respond(rec, 403, "create:lfg"))
                /\ UNCHANGED <<announcement, next_aid>>
           ELSE IF MissingSudo("create:lfg", cu, u)
           THEN /\ Answered(r, Respond(rec, 403, "create:lfg_sudo"))
                /\ UNCHANGED <<announcement, next_aid>>
           ELSE /\ announcement' = InsertAnnouncement(lfg)
                /\ next_aid' = next_aid + 1
                /\ Enter(r, [rec EXCEPT !.pc = "select_webhooks",
                                        !.lfg_state = lfg.state,
                                        !.code = 200, !.at_commit = webhook])
    /\ UNCHANGED <<response, webhook, next_wid>>

\* PUT /lfg/{aid}
lfg_put(r, cu, aid, data) ==
    /\ req[r].pc = "idle"
    /\ LET rec == Call("lfg_put", aid)
       IN  IF "edit:lfg" \notin cu.permissions
           THEN /\ Answered(r, Respond(rec, 403, "edit:lfg"))
                /\ UNCHANGED announcement
           ELSE IF ~Exists(aid)
           THEN /\ Answered(r, Respond(rec, 404, "No such LFG."))
                /\ UNCHANGED announcement
           ELSE LET lfg == announcement[aid]
                    loaded == [rec EXCEPT !.lfg_state = lfg.state]
                IN  IF EditMissingSudo(cu, lfg)
                    THEN /\ Answered(r, Respond(loaded, 403, "edit:lfg_sudo"))
                         /\ UNCHANGED announcement
                    ELSE IF EditMissingAdmin(cu, lfg)
                    THEN /\ Answered(r, Respond(loaded, 403, "edit:lfg_admin"))
                         /\ UNCHANGED announcement
                    ELSE /\ announcement' = [announcement EXCEPT ![aid].data = data]
                         /\ Answered(r, Respond(loaded, 200, ""))
    /\ UNCHANGED <<next_aid, response, webhook, next_wid>>

\* DELETE /lfg/{aid} with the scope tested after the row is deleted.
lfg_delete_unchecked(r, cu, aid) ==
    /\ req[r].pc = "idle"
    /\ announcement' = IF Exists(aid) THEN DeleteAnnouncement(aid) ELSE announcement
    /\ response' = IF Exists(aid) THEN DeleteResponsesOf(aid) ELSE response
    /\ Answered(r, IF "delete:lfg_admin" \notin cu.permissions
                   THEN Respond(Call("lfg_delete", aid), 403, "delete:lfg_admin")
                   ELSE Respond(Call("lfg_delete", aid), 204, ""))
    /\ UNCHANGED <<next_aid, webhook, next_wid>>

\* DELETE /lfg/{aid}
lfg_delete(r, cu, aid) ==
    /\ req[r].pc = "idle"
    /\ LET rec == Call("lfg_delete", aid)
       IN  IF "delete:lfg_admin" \notin cu.permissions
           THEN /\ Answered(r, Respond(rec, 403, "delete:lfg_admin"))
                /\ UNCHANGED <<announcement, response>>
           ELSE /\ announcement' = IF Exists(aid) THEN DeleteAnnouncement(aid)
                                   ELSE announcement
                /\ response' = IF Exists(aid) THEN DeleteResponsesOf(aid) ELSE response
                /\ Answered(r, Respond(rec, 204, ""))
    /\ UNCHANGED <<next_aid, webhook, next_wid>>

\* PATCH /lfg/{aid}/start and PATCH /lfg/{aid}/cancel: the two handlers differ
\* in the scope names and in the state they assign.  The assignment to
\* lfg.state stays in the session: neither handler commits.
Lifecycle(r, op, scope, target, cu, user, aid) ==
    /\ req[r].pc = "idle"
    /\ LET u == ActingAs(cu, user)
           rec == Call(op, aid)
       IN  IF scope \notin cu.permissions
           THEN Answered(r, Respond(rec, 403, scope))
           ELSE IF MissingSudo(scope, cu, u)
           THEN Answered(r, Respond(rec, 403, scope \o "_sudo"))
           ELSE IF ~Exists(aid)
           THEN Answered(r, Respond(rec, 404, "No such LFG."))
           ELSE LET lfg == announcement[aid]
                    loaded == [rec EXCEPT !.lfg_state = lfg.state]
                IN  IF MissingAdmin(scope, cu, u, lfg)
                    THEN Answered(r, Respond(loaded, 403, scope \o "_admin"))
                    ELSE IF StateConflict(lfg)
                    THEN Answered(r, Respond(loaded, 409,
                                             "LFG is not in the LOOKING_FOR_GROUP state."))
                    ELSE Enter(r, [loaded EXCEPT !.pc = "select_webhooks",
                                                 !.lfg_state = target,
                                                 !.code = 200, !.at_commit = webhook])
    /\ UNCHANGED store

lfg_start(r, cu, user, aid) ==
    Lifecycle(r, "lfg_start", "start:lfg", EVENT_STARTED, cu, user, aid)

lfg_cancel(r, cu, user, aid) ==
    Lifecycle(r, "lfg_cancel", "cancel:lfg", EVENT_CANCELLED, cu, user, aid)

\* A Response row can be stored only with its whole identity (aid, partecipant_id).
Storable(row) == row.aid # NoAid /\ row.partecipant_id # None

\* PUT /lfg/{aid}/answer, up to session.commit().  The existing response is
\* looked up under cu.sub; a new one is built from the body and partecipant_id
\* alone.  The body is an AnnouncementEditable: it carries no choice, so
\* update() leaves the stored choice as it is.
lfg_answer_put(r, cu, user, aid, data) ==
    /\ req[r].pc = "idle"
    /\ LET u == ActingAs(cu, user)
           rec == Call("lfg_answer_put", aid)
           found == {x \in response : x.aid = aid /\ x.partecipant_id = cu.sub}
           created == [aid |-> NoAid, partecipant_id |-> u, choice |-> None]
       IN  IF "answer:lfg" \notin cu.permissions
           THEN /\ Answered(r, Respond(rec, 403, "answer:lfg"))
                /\ UNCHANGED response
           ELSE IF MissingSudo("answer:lfg", cu, u)
           THEN /\ Answered(r, Respond(rec, 403, "answer:lfg_sudo"))
                /\ UNCHANGED response
           ELSE IF found = {}
           THEN IF Storable(created)
                THEN /\ response' = response \cup {created}
                     /\ Enter(r, [rec EXCEPT !.pc = "select_webhooks", !.code = 201,
                                             !.at_commit = webhook])
                ELSE /\ Answered(r, Respond([rec EXCEPT !.code = 201], 500,
                                            "Internal Server Error"))
                     /\ UNCHANGED response
           ELSE /\ response' = response
                /\ Enter(r, [rec EXCEPT !.pc = "select_webhooks", !.code = 200,
                                        !.at_commit = webhook])
    /\ UNCHANGED <<announcement, next_aid, webhook, next_wid>>

\* POST /webhook
webhooks_post(r, cu) ==
    /\ req[r].pc = "idle"
    /\ next_wid <= MaxWid
    /\ LET rec == Call("webhooks_post", next_wid)
       IN  IF "create:webhooks" \notin cu.permissions
           THEN /\ Answered(r, Respond(rec, 403, "create:webhooks"))
                /\ UNCHANGED <<webhook, next_wid>>
           ELSE /\ webhook' = webhook \cup {next_wid}
                /\ next_wid' = next_wid + 1
                /\ Answered(r, Respond(rec, 200, ""))
    /\ UNCHANGED <<announcement, next_aid, response>>

\* DELETE /webhook/{wid}
webhooks_delete(r, cu, wid) ==
    /\ req[r].pc = "idle"
    /\ LET rec == Call("webhooks_delete", wid)
       IN  IF "delete:webhooks" \notin cu.permissions
           THEN /\ Answered(r, Respond(rec, 403, "delete:webhooks"))
                /\ UNCHANGED webhook
           ELSE IF wid \notin webhook
           THEN /\ Answered(r, Respond(rec, 404, "No such webhook."))
                /\ UNCHANGED webhook
           ELSE /\ webhook' = webhook \ {wid}
                /\ Answered(r, Respond(rec, 204, ""))
    /\ UNCHANGED <<announcement, next_aid, response, next_wid>>

\* GET /webhook
webhooks_get(r, cu) ==
    /\ req[r].pc = "idle"
    /\ LET rec == Call("webhooks_get", NoAid)
       IN  IF "read:webhooks" \notin cu.permissions
           THEN Answered(r, Respond(rec, 403, "read:webhooks"))
           ELSE Answered(r, Respond(rec, 200, ""))
    /\ UNCHANGED store

\* POST /webhook/{wid}/test, up to its requests.post.  The row is used as it
\* comes from the SELECT: webhook.format of a wid that has no row is an
\* attribute of None, and raises.
webhooks_test(r, cu, wid) ==
    /\ req[r].pc = "idle"
    /\ LET rec == Call("webhooks_test", wid)
       IN  IF "test:webhooks" \notin cu.permissions
           THEN Answered(r, Respond(rec, 403, "test:webhooks"))
           ELSE IF wid \notin webhook
           THEN Answered(r, Respond(rec, 500, "Internal Server Error"))
           ELSE Enter(r, [rec EXCEPT !.pc = "post", !.code = 204,
                                     !.read = {wid}, !.to_post = {wid}])
    /\ UNCHANGED store

(* ------------------------------ fan-out ------------------------------- *)

\* for webhook in session.execute(ss.select(database.Webhook)).scalars():
\* the rows are read when the loop starts.
select_webhooks(r) ==
    /\ req[r].pc = "select_webhooks"
    /\ Answered(r, [req[r] EXCEPT !.pc = "post", !.read = webhook, !.to_post = webhook])
    /\ call' = NoCall
    /\ UNCHANGED store

\* What a call of requests.post(url, json=...) can do: return a response
\* (whatever its status), raise (connection refused, reset, bad url), or wait
\* for an endpoint that never answers (the call sets no timeout).
Outcomes == {"returned", "raised", "waits"}

\* One iteration of the loop: requests.post to the webhook w.  The SELECT has
\* no ORDER BY, so the rows come in any order.  An exception leaves the loop and
\* the handler.
requests_post(r, w, outcome) ==
    /\ req[r].pc = "post"
    /\ w \in req[r].to_post
    /\ LET rec == [req[r] EXCEPT !.to_post = @ \ {w}]
       IN  CASE outcome = "returned" -> Answered(r, rec)
             [] outcome = "raised" -> Answered(r, Respond(rec, 500, "Internal Server Error"))
             [] outcome = "waits" -> Answered(r, [rec EXCEPT !.pc = "waiting"])
    /\ UNCHANGED <<store, call>>

\* The status the handler's return statement produces.  lfg_answer_put returns
\* f.Response(response, status_code=code): the content is a database object,
\* neither bytes nor str, and rendering it raises.
ReturnStatus(rec) ==
    IF rec.op = "lfg_answer_put" THEN 500 ELSE rec.code

\* The loop is over: the handler returns and the session is closed.  What the
\* session holds uncommitted is dropped with it.
handler_return(r) ==
    /\ req[r].pc = "post"
    /\ req[r].to_post = {}
    /\ Answered(r, Respond(req[r], ReturnStatus(req[r]),
                           IF ReturnStatus(req[r]) = 500 THEN "Internal Server Error" ELSE ""))
    /\ UNCHANGED <<store, call>>

\* The client has its response; the server is free for the next request.
next_request(r) ==
    /\ req[r].pc = "done"
    /\ req' = [q \in Req |-> IF q = r THEN IdleReq
                             ELSE [req[q] EXCEPT !.concurrent = @ \ {r}]]
    /\ call' = NoCall
    /\ UNCHANGED store

(* --------------------------- specifications --------------------------- *)

Aids == 1 .. MaxAid
Wids == 1 .. MaxWid
Pages == 0 .. MaxPage

\* The store the server starts on: the database outlives the server process,
\* and holds an Announcement of user A in any of the three states, with
\* a Response of user B to it, and one Webhook.
Init ==
    /\ \E s \in AnnouncementState :
          announcement = (1 :> [creator_id |-> "A", state |-> s, data |-> "d1"])
    /\ next_aid = 2
    /\ response = {[aid |-> 1, partecipant_id |-> "B", choice |-> "yes"]}
    /\ webhook = {1}
    /\ next_wid = 2
    /\ req = [r \in Req |-> IdleReq]
    /\ call = NoCall

\* The token and the parameters a request came with, where they are kept.
Kept(keep, op, cu, user, aid, data) ==
    IF keep THEN [op |-> op, cu |-> cu, user |-> user, aid |-> aid, data |-> data]
    ELSE NoCall

(* The routes: a request of a client holding one of the tokens, with any     *)
(* parameters, handled as r.                                              *)

get_lfg(r, tokens, keep) ==
    \E cu \in tokens, limit \in Pages, offset \in Pages,
       filter_state \in AnnouncementState \cup {None} :
        /\ lfg_get(r, cu, limit, offset, filter_state)
        /\ call' = Kept(keep, "lfg_get", cu, None, NoAid,
                        [limit |-> limit, offset |-> offset, filter_state |-> filter_state])

\* GET /lfg with no query parameters: limit 50, offset 0, no filter.
get_lfg_default(r, tokens, keep) ==
    \E cu \in tokens :
        /\ lfg_get(r, cu, DefaultLimit, 0, None)
        /\ call' = Kept(keep, "lfg_get", cu, None, NoAid,
                        [limit |-> DefaultLimit, offset |-> 0, filter_state |-> None])

get_lfg_single(r, tokens, keep) ==
    \E cu \in tokens, aid \in Aids :
        /\ lfg_get_single(r, cu, aid)
        /\ call' = Kept(keep, "lfg_get_single", cu, None, aid, None)

get_webhook(r, tokens, keep) ==
    \E cu \in tokens :
        /\ webhooks_get(r, cu)
        /\ call' = Kept(keep, "webhooks_get", cu, None, NoAid, None)

post_webhook_test(r, tokens, keep) ==
    \E cu \in tokens, wid \in Wids :
        /\ webhooks_test(r, cu, wid)
        /\ call' = Kept(keep, "webhooks_test", cu, None, wid, None)

post_lfg(r, tokens, keep) ==
    \E cu \in tokens, user \in Users \cup {None}, data \in Data :
        /\ lfg_post(r, cu, user, data)
        /\ call' = Kept(keep, "lfg_post", cu, user, NoAid, data)

put_lfg(r, tokens, keep) ==
    \E cu \in tokens, aid \in Aids, data \in Data :
        /\ lfg_put(r, cu, aid, data)
        /\ call' = Kept(keep, "lfg_put", cu, None, aid, data)

delete_lfg(r, tokens, keep) ==
    \E cu \in tokens, aid \in Aids :
        /\ lfg_delete(r, cu, aid)
        /\ call' = Kept(keep, "lfg_delete", cu, None, aid, None)

patch_lfg_start(r, tokens, keep) ==
    \E cu \in tokens, user \in Users \cup {None}, aid \in Aids :
        /\ lfg_start(r, cu, user, aid)
        /\ call' = Kept(keep, "lfg_start", cu, user, aid, None)

patch_lfg_cancel(r, tokens, keep) ==
    \E cu \in tokens, user \in Users \cup {None}, aid \in Aids :
        /\ lfg_cancel(r, cu, user, aid)
        /\ call' = Kept(keep, "lfg_cancel", cu, user, aid, None)

put_lfg_answer(r, tokens, keep) ==
    \E cu \in tokens, user \in Users \cup {None}, aid \in Aids, data \in Data :
        /\ lfg_answer_put(r, cu, user, aid, data)
        /\ call' = Kept(keep, "lfg_answer_put", cu, user, aid, data)

post_webhook(r, tokens, keep) ==
    \E cu \in tokens :
        /\ webhooks_post(r, cu)
        /\ call' = Kept(keep, "webhooks_post", cu, None, NoAid, None)

delete_webhook(r, tokens, keep) ==
    \E cu \in tokens, wid \in Wids :
        /\ webhooks_delete(r, cu, wid)
        /\ call' = Kept(keep, "webhooks_delete", cu, None, wid, None)

\* The server handling one request after the other.
Next ==
    \/ get_lfg_default("r1", TierTokens, FALSE)
    \/ post_lfg("r1", TierTokens, FALSE)
    \/ get_lfg_single("r1", TierTokens, FALSE)
    \/ put_lfg("r1", TierTokens, FALSE)
    \/ delete_lfg("r1", TierTokens, FALSE)
    \/ patch_lfg_start("r1", TierTokens, FALSE)
    \/ patch_lfg_cancel("r1", TierTokens, FALSE)
    \/ put_lfg_answer("r1", TierTokens, FALSE)
    \/ get_webhook("r1", TierTokens, FALSE)
    \/ post_webhook("r1", TierTokens, FALSE)
    \/ delete_webhook("r1", TierTokens, FALSE)
    \/ post_webhook_test("r1", TierTokens, FALSE)
    \/ select_webhooks("r1")
    \/ \E w \in Wids, outcome \in Outcomes : requests_post("r1", w, outcome)
    \/ handler_return("r1")
    \/ next_request("r1")

Spec == Init /\ [][Next]_vars

\* The server handling one request after the other, from actors of every
\* permission set, the token and parameters of each request kept until it is
\* decided; the webhooks stay as configured.
AuthNext ==
    \/ post_lfg("r1", AllTokens, TRUE)
    \/ put_lfg("r1", AllTokens, TRUE)
    \/ delete_lfg("r1", AllTokens, TRUE)
    \/ patch_lfg_start("r1", AllTokens, TRUE)
    \/ patch_lfg_cancel("r1", AllTokens, TRUE)
    \/ put_lfg_answer("r1", AllTokens, TRUE)
    \/ select_webhooks("r1")
    \/ \E w \in Wids, outcome \in Outcomes : requests_post("r1", w, outcome)
    \/ handler_return("r1")
    \/ next_request("r1")

AuthSpec == Init /\ [][AuthNext]_vars

\* The server handling the requests of Req concurrently: the requests that
\* change the state of an Announcement or the set of webhooks.
ConcNext ==
    \E r \in Req :
        \/ post_lfg(r, Tokens, FALSE)
        \/ patch_lfg_start(r, Tokens, FALSE)
        \/ patch_lfg_cancel(r, Tokens, FALSE)
        \/ post_webhook(r, Tokens, FALSE)
        \/ delete_webhook(r, Tokens, FALSE)
        \/ select_webhooks(r)
        \/ \E w \in Wids, outcome \in Outcomes : requests_post(r, w, outcome)
        \/ handler_return(r)
        \/ next_request(r)

ConcSpec == Init /\ [][ConcNext]_vars

\* The server handling one request after the other: the requests that create
\* and delete Announcements, which make the stores the scope checks of the
\* handlers read (the Announcements there are, their creators and states).
StoreNext ==
    \/ post_lfg("r1", Tokens, FALSE)
    \/ delete_lfg("r1", Tokens, FALSE)
    \/ select_webhooks("r1")
    \/ \E w \in Wids, outcome \in Outcomes : requests_post("r1", w, outcome)
    \/ handler_return("r1")
    \/ next_request("r1")

StoreSpec == Init /\ [][StoreNext]_vars

\* The list operation over a store of up to MaxListed Announcements in any
\* states and with any autostart times.
ListInit ==
    /\ \E n \in 0 .. MaxListed :
          /\ announcement \in [1 .. n -> [creator_id : {"A"}, state : AnnouncementState,
                                          data : Data]]
          /\ next_aid = n + 1
    /\ response = {}
    /\ webhook = {}
    /\ next_wid = 1
    /\ req = [r \in Req |-> IdleReq]
    /\ call = NoCall

ListNext ==
    \/ get_lfg("r1", ListTokens, TRUE)
    \/ next_request("r1")

ListSpec == ListInit /\ [][ListNext]_vars

(* ------------------------------- claims ------------------------------- *)

Closed == {EVENT_STARTED, EVENT_CANCELLED}

LifecycleOps == {"lfg_start", "lfg_cancel"}

NotifyingOps == {"lfg_post", "lfg_start", "lfg_cancel", "lfg_answer_put"}

\* The request handled as r was let through all its checks.
Passed(r) == req[r].op \in NotifyingOps /\ req[r].code # 0

\* The request received last, where its token was kept, and its acting-as user.
Actor == call.cu
ActingUser == ActingAs(call.cu, call.user)

\* C1: the state of an Announcement, in the store and in the session that
\* loaded it, only ever changes from LOOKING_FOR_GROUP to EVENT_STARTED or to
\* EVENT_CANCELLED; a start or cancel that finds the state closed and is not
\* refused for a missing scope is answered 409, and changes the state neither
\* in its session nor in the store.
C1_StateOnlyLeavesLookingForGroup ==
    [][/\ \A a \in DOMAIN announcement \cap DOMAIN announcement' :
             announcement'[a].state # announcement[a].state
                => /\ announcement[a].state = LOOKING_FOR_GROUP
                   /\ announcement'[a].state \in Closed
       /\ \A r \in Req :
             /\ (req[r].pc # "idle" /\ req'[r].pc # "idle")
                   => req'[r].lfg_state = req[r].lfg_state
             /\ (req[r].pc = "idle" /\ req'[r].lfg_state # None /\ req'[r].op # "lfg_post")
                   => LET old == announcement[req'[r].aid].state
                          new == req'[r].lfg_state
                      IN  /\ new # old => old = LOOKING_FOR_GROUP /\ new \in Closed
                          /\ (old \in Closed /\ req'[r].op \in LifecycleOps
                                /\ req'[r].status # 403)
                                => /\ req'[r].status = 409
                                   /\ new = old
                                   /\ announcement' = announcement
      ]_vars

\* C1 witness: a cancel of a started Announcement was answered 409, the state
\* in its session and in the store still EVENT_STARTED.
C1_Witness ==
    /\ req["r1"].op = "lfg_cancel"
    /\ req["r1"].status = 409
    /\ req["r1"].lfg_state = EVENT_STARTED
    /\ announcement[req["r1"].aid].state = EVENT_STARTED

\* C2: of a start and a cancel of the same Announcement that were in flight
\* together, at most one is answered with success.
C2_AtMostOneOfStartAndCancelSucceeds ==
    \A p \in Req, q \in Req :
        (/\ req[p].op = "lfg_start" /\ req[q].op = "lfg_cancel"
         /\ req[p].aid = req[q].aid
         /\ q \in req[p].concurrent
         /\ req[p].pc = "done" /\ req[q].pc = "done")
        => ~(req[p].status = 200 /\ req[q].status = 200)

\* C3: once a start has been answered with success the stored state of the
\* Announcement is EVENT_STARTED (EVENT_CANCELLED after a cancel), which is
\* what every later request reads.
C3_SuccessfulTransitionIsStored ==
    \A r \in Req :
        (req[r].pc = "done" /\ req[r].op \in LifecycleOps /\ req[r].status = 200
            /\ Exists(req[r].aid))
        => announcement[req[r].aid].state =
              (IF req[r].op = "lfg_start" THEN EVENT_STARTED ELSE EVENT_CANCELLED)

\* C4: when the fan-out of an event is over, every webhook that was read for
\* it has had its delivery attempt, whatever became of the other attempts.
C4_EveryWebhookReadIsTried ==
    \A r \in Req : (req[r].pc = "done" /\ Passed(r)) => Tried(req[r]) = req[r].read

\* C5: a request that passed its checks and attempted deliveries is answered
\* with its success status, whatever the outcome of the deliveries.
C5_DeliveryFailureNotSurfaced ==
    \A r \in Req :
        (req[r].pc = "done" /\ Passed(r) /\ Tried(req[r]) # {})
        => req[r].status = req[r].code

\* C6: a request that passed its checks and has not been answered yet can
\* always take its next step: it never waits on a webhook endpoint.
C6_NeverBlockedOnDelivery ==
    \A r \in Req :
        (InFlight(r) /\ Passed(r))
        => ENABLED (\/ select_webhooks(r)
                    \/ \E w \in 1 .. MaxWid, outcome \in {"returned", "raised", "waits"} :
                          requests_post(r, w, outcome)
                    \/ handler_return(r))

\* C7: the webhooks that were sent the event of a request answered with success
\* are the webhooks that were registered when its mutation was committed (for
\* start and cancel, which do not commit: when the state was assigned).
C7_DeliveredToWebhooksAtCommit ==
    \A r \in Req :
        (req[r].pc = "done" /\ Passed(r) /\ req[r].status = req[r].code)
        => Tried(req[r]) = req[r].at_commit

\* What the start or cancel received last must be answered, by the scopes its
\* actor holds: the scope that is missing, or none.
LifecycleScope == IF call.op = "lfg_start" THEN "start:lfg" ELSE "cancel:lfg"

LifecycleMissing ==
    IF LifecycleScope \notin Actor.permissions THEN LifecycleScope
    ELSE IF ActingUser # Actor.sub /\ (LifecycleScope \o "_sudo") \notin Actor.permissions
    THEN LifecycleScope \o "_sudo"
    ELSE IF /\ Exists(call.aid)
            /\ ActingUser # announcement[call.aid].creator_id
            /\ (LifecycleScope \o "_admin") \notin Actor.permissions
    THEN LifecycleScope \o "_admin"
    ELSE None

\* C8: a start or cancel is refused with 403 naming the first scope that is
\* missing, in the order base, sudo (when acting as another subject), admin
\* (when acting as a subject that is not the creator), and is refused for
\* no scope when none of them is missing.
C8_LifecycleScopes ==
    call.op \in LifecycleOps =>
        IF LifecycleMissing # None
        THEN /\ req["r1"].pc = "done"
             /\ req["r1"].status = 403
             /\ req["r1"].detail = LifecycleMissing
        ELSE req["r1"].status # 403

\* C8 witness: B, holding the base and the admin scope but not the sudo scope,
\* started as A the Announcement that A created, and was refused for the sudo
\* scope.
C8_Witness ==
    /\ call.op = "lfg_start"
    /\ Actor.sub = "B" /\ ActingUser = "A"
    /\ Exists(call.aid) /\ announcement[call.aid].creator_id = "A"
    /\ "start:lfg" \in Actor.permissions
    /\ "start:lfg_admin" \in Actor.permissions
    /\ "start:lfg_sudo" \notin Actor.permissions
    /\ req["r1"].status = 403
    /\ req["r1"].detail = "start:lfg_sudo"

\* C9: an edit of a closed Announcement by an actor without edit:lfg_admin is
\* refused, the creator's too, and the content of a closed Announcement only
\* changes in a step of an edit whose actor holds edit:lfg_admin.
C9_ClosedEditNeedsAdmin ==
    [][/\ (/\ call'.op = "lfg_put"
           /\ Exists(call'.aid)
           /\ announcement[call'.aid].state \in Closed
           /\ "edit:lfg_admin" \notin call'.cu.permissions)
          => /\ req'["r1"].status = 403
             /\ announcement' = announcement
       /\ \A a \in DOMAIN announcement \cap DOMAIN announcement' :
             (announcement[a].state \in Closed /\ announcement'[a] # announcement[a])
                => /\ call'.op = "lfg_put" /\ call'.aid = a
                   /\ "edit:lfg_admin" \in call'.cu.permissions
      ]_vars

\* C9 witness: the creator, holding edit:lfg and edit:lfg_sudo, was refused the
\* edit of their cancelled Announcement for edit:lfg_admin.
C9_Witness ==
    /\ call.op = "lfg_put"
    /\ Exists(call.aid)
    /\ announcement[call.aid].creator_id = Actor.sub
    /\ announcement[call.aid].state = EVENT_CANCELLED
    /\ {"edit:lfg", "edit:lfg_sudo"} \subseteq Actor.permissions
    /\ req["r1"].status = 403
    /\ req["r1"].detail = "edit:lfg_admin"

\* An edit of an open Announcement by an actor who is not its creator.
OpenEditByOther ==
    /\ call.op = "lfg_put"
    /\ Exists(call.aid)
    /\ announcement[call.aid].state = LOOKING_FOR_GROUP
    /\ announcement[call.aid].creator_id # Actor.sub

\* C10 as claimed: an edit of an open Announcement by an actor who is not its
\* creator and does not hold edit:lfg_admin is refused.
C10_OpenEditByOtherNeedsAdmin ==
    (OpenEditByOther /\ "edit:lfg_admin" \notin Actor.permissions)
        => req["r1"].status = 403

\* C10 amended: an edit of an open Announcement by an actor who is not its
\* creator is refused unless the actor holds edit:lfg_sudo, and edit:lfg with
\* edit:lfg_sudo is enough for it.
C10_OpenEditByOtherNeedsSudo ==
    OpenEditByOther =>
        IF {"edit:lfg", "edit:lfg_sudo"} \subseteq Actor.permissions
        THEN req["r1"].status = 200 /\ announcement[call.aid].data = call.data
        ELSE req["r1"].status = 403

\* C10 witness: an actor holding edit:lfg and edit:lfg_sudo but not
\* edit:lfg_admin has edited the open Announcement of somebody else.
C10_Witness ==
    /\ OpenEditByOther
    /\ "edit:lfg_admin" \notin Actor.permissions
    /\ req["r1"].status = 200
    /\ announcement[call.aid].data = "d2"

\* The request of operation op with the token cu, acting as user, on the
\* Announcement or Webhook id, handled as r1.
Handle(op, cu, user, id) ==
    \/ op = "lfg_get" /\ \E f \in AnnouncementState \cup {None} : lfg_get("r1", cu, MaxPage, 0, f)
    \/ op = "lfg_post" /\ lfg_post("r1", cu, user, "d1")
    \/ op = "lfg_get_single" /\ lfg_get_single("r1", cu, id)
    \/ op = "lfg_put" /\ lfg_put("r1", cu, id, "d2")
    \/ op = "lfg_delete" /\ lfg_delete("r1", cu, id)
    \/ op = "lfg_start" /\ lfg_start("r1", cu, user, id)
    \/ op = "lfg_cancel" /\ lfg_cancel("r1", cu, user, id)
    \/ op = "lfg_answer_put" /\ lfg_answer_put("r1", cu, user, id, "d1")
    \/ op = "webhooks_get" /\ webhooks_get("r1", cu)
    \/ op = "webhooks_post" /\ webhooks_post("r1", cu)
    \/ op = "webhooks_delete" /\ webhooks_delete("r1", cu, id)
    \/ op = "webhooks_test" /\ webhooks_test("r1", cu, id)

Ops ==
    {"lfg_get", "lfg_post", "lfg_get_single", "lfg_put", "lfg_delete", "lfg_start",
     "lfg_cancel", "lfg_answer_put", "webhooks_get", "webhooks_post",
     "webhooks_delete", "webhooks_test"}

\* The request is not refused for a missing scope.
Allowed(op, cu, user, id) ==
    ENABLED (Handle(op, cu, user, id) /\ req'["r1"].status # 403)

\* The permission sets with which the subject sub is allowed the request.
AllowedWith(op, sub, user, id) ==
    {P \in PermissionSets : Allowed(op, [sub |-> sub, permissions |-> P], user, id)}

\* C11: whatever Announcements the store holds, a request that is allowed with a permission
\* set is allowed with every permission set that contains it: no operation
\* refuses for a scope that is held.
C11_AuthorizationIsMonotonic ==
    req["r1"].pc = "idle" =>
        \A op \in Ops, sub \in Users, user \in Users \cup {None}, id \in Aids \cup Wids :
            LET ok == AllowedWith(op, sub, user, id)
            IN  \A P \in ok, Q \in PermissionSets : P \subseteq Q => Q \in ok

\* C11 witness: after a second Announcement was created, B acting as its
\* creator A is allowed the start of the open Announcement 1 with the base and
\* sudo scopes and with every scope, and is not allowed it with the base scopes.
C11_Witness ==
    /\ req["r1"].pc = "idle"
    /\ Exists(2)
    /\ Exists(1) /\ announcement[1].state = LOOKING_FOR_GROUP
    /\ AllowedWith("lfg_start", "B", "A", 1)
          = {P \in PermissionSets : BaseScopes \cup SudoScopes \subseteq P}

\* The Response rows of the participant u to the Announcement aid.
ResponsesOf(aid, u) == {x \in response : x.aid = aid /\ x.partecipant_id = u}

\* C12: an answer to an existing Announcement that is not refused for a scope
\* is answered 201 (created) or 200 (updated), and leaves exactly one Response
\* of its participant to that Announcement.
C12_AnswerCreatesThenUpdates ==
    /\ (/\ call.op = "lfg_answer_put"
        /\ Exists(call.aid)
        /\ req["r1"].pc = "done"
        /\ req["r1"].status # 403)
       => /\ req["r1"].status \in {200, 201}
          /\ Cardinality(ResponsesOf(call.aid, ActingUser)) = 1
    /\ \A r \in Req :
          (req[r].op = "lfg_answer_put" /\ req[r].pc = "done" /\ req[r].code # 0)
          => req[r].status = req[r].code

\* C13: no two Response rows share (aid, partecipant_id), and an answer acting
\* as user U takes the update path (200) only on a Response of U to the
\* addressed Announcement, and the create path (201) only when U has none.
C13_AnswerIsOfTheActingUser ==
    /\ \A x \in response, y \in response :
          (x.aid = y.aid /\ x.partecipant_id = y.partecipant_id) => x = y
    /\ (call.op = "lfg_answer_put" /\ req["r1"].code = 200)
          => ResponsesOf(call.aid, ActingUser) # {}
    /\ (call.op = "lfg_answer_put" /\ req["r1"].code = 201 /\ req["r1"].status = 500)
          => ResponsesOf(call.aid, ActingUser) = {}

\* C14: a delete by an actor holding delete:lfg_admin is answered 204 whether
\* the Announcement exists or not, the Announcement is absent afterwards and
\* the other Announcements and the Webhooks are as before; and no delete ever
\* reads the Webhooks or attempts a delivery.
C14_DeleteIsIdempotentAndQuiet ==
    [][/\ (/\ req["r1"].pc = "idle"
           /\ call'.op = "lfg_delete"
           /\ "delete:lfg_admin" \in call'.cu.permissions)
          => /\ req'["r1"].pc = "done"
             /\ req'["r1"].status = 204
             /\ DOMAIN announcement' = DOMAIN announcement \ {call'.aid}
             /\ \A a \in DOMAIN announcement' : announcement'[a] = announcement[a]
             /\ webhook' = webhook
       /\ \A r \in Req :
             req'[r].op = "lfg_delete"
             => /\ req'[r].pc = "done"
                /\ req'[r].read = {} /\ req'[r].to_post = {}
      ]_vars

\* C14 witness: the delete of an Announcement that never existed was answered
\* 204.
C14_Witness ==
    /\ call.op = "lfg_delete"
    /\ call.aid = next_aid
    /\ req["r1"].status = 204

\* The operations addressed to an Announcement, and to a Webhook, by a path
\* parameter, the delete of an Announcement apart.
AnnouncementPathOps ==
    {"lfg_get_single", "lfg_put", "lfg_start", "lfg_cancel", "lfg_answer_put"}

WebhookPathOps == {"webhooks_delete", "webhooks_test"}

\* C15: a path-addressed operation, other than the delete of an Announcement,
\* on an Announcement or Webhook that is absent is answered 404 unless it is
\* refused for a scope, changes no record and enters no webhook loop.
C15_AbsentResourceIsNotFound ==
    [][\A r \in Req :
          (/\ req[r].pc = "idle"
           /\ \/ req'[r].op \in AnnouncementPathOps /\ ~Exists(req'[r].aid)
              \/ req'[r].op \in WebhookPathOps /\ req'[r].aid \notin webhook
           /\ req'[r].status # 403)
          => /\ req'[r].pc = "done"
             /\ req'[r].status = 404
             /\ store' = store
      ]_vars

\* The autostart_time of the stored Announcement a.
TimeOf(a) == autostart_time(announcement[a].data)

\* C16: the body of a list answered 200 holds Announcements whose state is
\* filter_state (any Announcement when no filter is given), each once, in
\* ascending order of autostart_time; it holds limit of them, or as many as are
\* left after offset; and the ones left out are offset that come before the
\* body in the order (all of them if there are fewer), and the rest after it.
C16_ListIsFilteredSortedPage ==
    (call.op = "lfg_get" /\ req["r1"].status = 200) =>
        LET f == call.data.filter_state
            limit == call.data.limit
            offset == call.data.offset
            body == req["r1"].body
            M == {a \in DOMAIN announcement : f = None \/ announcement[a].state = f}
            listed == {body[i] : i \in 1 .. Len(body)}
            left == IF Cardinality(M) > offset THEN Cardinality(M) - offset ELSE 0
        IN  /\ listed \subseteq M
            /\ Cardinality(listed) = Len(body)
            /\ \A i, j \in 1 .. Len(body) : i < j => TimeOf(body[i]) <= TimeOf(body[j])
            /\ Len(body) = IF left > limit THEN limit ELSE left
            /\ \E before \in SUBSET (M \ listed) :
                  /\ Cardinality(before) = IF left = 0 THEN Cardinality(M) ELSE offset
                  /\ \A b \in before, x \in listed : TimeOf(b) <= TimeOf(x)
                  /\ \A c \in (M \ listed) \ before, x \in listed : TimeOf(x) <= TimeOf(c)
                  /\ \A b \in before, c \in (M \ listed) \ before : TimeOf(b) <= TimeOf(c)

\* C16 witness: of two open Announcements and a started one that has the
\* earliest autostart_time, the list of the open ones with limit 1 returned the
\* earlier open one.
C16_Witness ==
    /\ call.op = "lfg_get"
    /\ req["r1"].status = 200
    /\ call.data = [limit |-> 1, offset |-> 0, filter_state |-> LOOKING_FOR_GROUP]
    /\ DOMAIN announcement = 1 .. 3
    /\ announcement[1].state = LOOKING_FOR_GROUP /\ announcement[1].data = "d2"
    /\ announcement[2].state = EVENT_STARTED /\ announcement[2].data = "d1"
    /\ announcement[3].state = LOOKING_FOR_GROUP /\ announcement[3].data = "d1"
    /\ req["r1"].body = <<3>>

\* C17: when a delivery of the event of a request has been attempted, the
\* mutation the event reports is in the store: the created Announcement, the
\* state a start or cancel assigned, the Response an answer wrote.
C17_DeliveryFollowsCommit ==
    \A r \in Req :
        (req[r].op \in NotifyingOps /\ Tried(req[r]) # {})
        => CASE req[r].op = "lfg_post" -> Exists(req[r].aid)
             [] req[r].op \in LifecycleOps ->
                   /\ Exists(req[r].aid)
                   /\ announcement[req[r].aid].state = req[r].lfg_state
             [] OTHER -> \E x \in response : x.aid = req[r].aid

\* C18: a request answered 403 or 409 is answered in the step that received
\* it, with the store as it was: no row created, changed or deleted, the
\* webhooks not read and no delivery attempted, and the state of the row it
\* loaded, if any, as stored.
C18_RejectedRequestHasNoEffect ==
    [][\A r \in Req :
          (req'[r].status \in {403, 409} /\ req[r].status \notin {403, 409})
          => /\ req[r].pc = "idle"
             /\ req'[r].pc = "done"
             /\ store' = store
             /\ req'[r].read = {} /\ req'[r].to_post = {}
             /\ req'[r].lfg_state # None
                   => req'[r].lfg_state = announcement'[req'[r].aid].state
      ]_vars

\* C18 witness: the start of a cancelled Announcement was answered 409, the
\* Announcement still cancelled and nothing read for delivery.
C18_Witness ==
    /\ req["r1"].op = "lfg_start"
    /\ req["r1"].status = 409
    /\ announcement[req["r1"].aid].state = EVENT_CANCELLED
    /\ req["r1"].read = {}

\* C19: the creator_id of a stored Announcement never changes; a stored
\* Announcement changes only in the step of an edit addressed to it, which
\* leaves its state as it was, so that start and cancel change neither
\* creator_id nor content; and an Announcement enters the store only in the
\* step of a create, open, with the content of the request and with the user
\* given, or the subject of the actor when none is given, as creator_id.
C19_CreatorAndLifecycleUntouchedByEdits ==
    [][/\ \A a \in DOMAIN announcement \cap DOMAIN announcement' :
             /\ announcement'[a].creator_id = announcement[a].creator_id
             /\ announcement'[a] # announcement[a]
                   => /\ call'.op = "lfg_put" /\ call'.aid = a
                      /\ announcement'[a].state = announcement[a].state
                      /\ announcement'[a].data = call'.data
       /\ \A a \in DOMAIN announcement' \ DOMAIN announcement :
             /\ call'.op = "lfg_post"
             /\ announcement'[a].creator_id =
                   (IF call'.user = None THEN call'.cu.sub ELSE call'.user)
             /\ announcement'[a].state = LOOKING_FOR_GROUP
             /\ announcement'[a].data = call'.data
      ]_vars

\* C19 witness: A, acting as B, has created an Announcement, and B is its
\* creator.
C19_Witness ==
    /\ call.op = "lfg_post"
    /\ call.cu.sub = "A" /\ call.user = "B"
    /\ Exists(req["r1"].aid)
    /\ announcement[req["r1"].aid].creator_id = "B"

====
